---- MODULE Spec2Model ----
(***************************************************************************)
(* A model of the account-state store (AccountStore.cpp) and of the        *)
(* isolated server's CreateTransaction (IsolatedServer.cpp).               *)
(*                                                                         *)
(* Spec      : the operations of one engine instance run one at a time     *)
(*             (each action is one whole call), over the primary store,    *)
(*             the temp overlay, the stored delta, the revertible change   *)
(*             set and the disk stores.                                    *)
(* SpecDeltaHash : GetStateDeltaHash over stored delta bytes of any       *)
(*             content.                                                    *)
(* SpecLocks : threads calling the operations on one shared instance; an   *)
(*             action is one step of a call (a lock taken or released, a   *)
(*             guarded access), over the four mutexes and the entries of   *)
(*             the in-memory mapping.                                      *)
(***************************************************************************)
EXTENDS Integers, Sequences, FiniteSets, TLC

(* ------------------------------ bounds -------------------------------- *)

NumAddr == 2
NumThreads == 2
MaxBalance == 2
MaxNonce == 1
MaxCalls == 7

Addr == 1..NumAddr

Threads == 1..NumThreads

Account == [balance : 0..MaxBalance, nonce : 0..MaxNonce, code : 0..1]

\* Account(0, 0): the account AddAccount is given for an unseen address.
NewAccount == [balance |-> 0, nonce |-> 0, code |-> 0]

isContract(acc) == acc.code # 0

\* A map with no entry (an empty unordered_map, an empty trie).
EmptyMap == << >>

MapPut(m, a, v) == [x \in (DOMAIN m) \cup {a} |-> IF x = a THEN v ELSE m[x]]

MapErase(m, a) == [x \in (DOMAIN m) \ {a} |-> m[x]]

(* --------------------------- account codec ---------------------------- *)

\* Account::SerializeBase: the bytes of a trie leaf.
SerializeBase(acc) == <<acc.balance, acc.nonce, acc.code>>

\* Account::DeserializeBase: the set holding the account, empty on failure.
DeserializeBase(b) ==
  IF /\ Len(b) = 3
     /\ b[1] \in 0..MaxBalance
     /\ b[2] \in 0..MaxNonce
     /\ b[3] \in 0..1
  THEN {[balance |-> b[1], nonce |-> b[2], code |-> b[3]]}
  ELSE {}

\* Signed deltas are written as unsigned bytes.
ZigZag(d) == IF d >= 0 THEN 2 * d ELSE (-2 * d) - 1

UnZigZag(n) == IF n % 2 = 0 THEN n \div 2 ELSE -((n + 1) \div 2)

(* ------------------------------- state -------------------------------- *)

VARIABLES
  m_addressToAccount,            \* primary store: in-memory mapping
  m_state,                       \* primary store: trie at its current root
  m_prevRoot,                    \* primary store: root of the last flush
  m_accountStoreTemp,            \* temp overlay mapping
  m_stateDeltaSerialized,        \* stored delta bytes
  m_addressToAccountRevChanged,  \* revertible change set: previous values
  m_addressToAccountRevCreated,  \* revertible change set: created accounts
  diskStateRoot,                 \* metadata STATEROOT: {} or {root}
  diskRootReadable,              \* the trie nodes of STATEROOT are in m_db
  diskContractCode,              \* addresses whose code is in contract storage
  calls,                         \* how many calls the engine has served
  last,                          \* the last call and what it returned
  snap,                          \* what the last calls started from
  mutex,                         \* the four mutexes of the engine
  pc,                            \* per thread: the call it is in, the step
  sender,                        \* per thread: the Account* it was given
  senderFreedBy,                 \* per thread: the call that destroyed it
  observed                       \* per thread: what it read through sender

dataVars == <<m_addressToAccount, m_state, m_prevRoot, m_accountStoreTemp,
              m_stateDeltaSerialized, m_addressToAccountRevChanged,
              m_addressToAccountRevCreated, diskStateRoot, diskRootReadable,
              diskContractCode, calls, last, snap>>

lockVars == <<mutex, pc, sender, senderFreedBy, observed>>

vars == <<dataVars, lockVars>>

NoSnap == [kind |-> "none", mem |-> EmptyMap, trie |-> EmptyMap]

Called(op, ret) == [op |-> op, ret |-> ret]

\* One more call is served and its result noted.
Returns(result) ==
  /\ calls < MaxCalls
  /\ calls' = calls + 1
  /\ last' = result
  /\ UNCHANGED lockVars

\* The mutexes with no holder.  primary is a shared_timed_mutex: writer is
\* its exclusive holder, readers its shared holders, and wedged says that
\* its state was corrupted so that no lock of it ever succeeds again.
AllFree ==
  [primary |-> [writer |-> {}, readers |-> {}, wedged |-> FALSE],
   delta |-> {}, revertibles |-> {}, db |-> {}]

\* A thread that is in no call.
Idle == [op |-> "idle", at |-> 0]

(* --------------------------- primary store ---------------------------- *)

\* AccountStoreTrie::GetAccount: the in-memory mapping first, else the trie
\* leaf deserialized; the empty set when absent or when the leaf is corrupt.
GetAccountIn(mem, trie, a) ==
  IF a \in DOMAIN mem THEN {mem[a]}
  ELSE IF a \in DOMAIN trie THEN DeserializeBase(trie[a])
  ELSE {}

GetAccount(a) == GetAccountIn(m_addressToAccount, m_state, a)

\* AccountStoreTemp::GetAccount: the overlay's own mapping, else the parent.
GetAccountTempIn(temp, mem, trie, a) ==
  IF a \in DOMAIN temp THEN {temp[a]} ELSE GetAccountIn(mem, trie, a)

GetAccountTemp(a) ==
  GetAccountTempIn(m_accountStoreTemp, m_addressToAccount, m_state, a)

\* UpdateStateTrie: the trie leaf of the address becomes the account's bytes.
UpdateStateTrie(trie, a, acc) == MapPut(trie, a, SerializeBase(acc))

\* RemoveFromTrie
RemoveFromTrie(trie, a) == MapErase(trie, a)

(* ----------------------------- delta codec ---------------------------- *)

EntryLen == 4

\* Account::SerializeDelta: one temp account against the primary account it
\* overrides (Account(0, 0) when the primary store has none).
SerializeAccountDelta(a, old, new) ==
  LET base == IF old = {} THEN NewAccount ELSE CHOOSE o \in old : TRUE
  IN  <<a, ZigZag(new.balance - base.balance),
        ZigZag(new.nonce - base.nonce), new.code>>

\* Messenger::SetAccountStoreDelta: an entry for every account of the temp
\* overlay, in address order.
RECURSIVE SetAccountStoreDeltaFrom(_, _, _, _)
SetAccountStoreDeltaFrom(a, temp, mem, trie) ==
  IF a > NumAddr THEN << >>
  ELSE (IF a \in DOMAIN temp
        THEN SerializeAccountDelta(a, GetAccountIn(mem, trie, a), temp[a])
        ELSE << >>)
       \o SetAccountStoreDeltaFrom(a + 1, temp, mem, trie)

SetAccountStoreDelta(temp, mem, trie) ==
  SetAccountStoreDeltaFrom(1, temp, mem, trie)

\* The primary store while a delta is applied to it.
Store(mem, trie, changed, created) ==
  [mem |-> mem, trie |-> trie, changed |-> changed, created |-> created,
   ok |-> TRUE, capped |-> FALSE]

\* AccountStore::AddAccountDuringDeserialization: record, then mutate the
\* in-memory mapping and stage the account in the trie.
AddAccountDuringDeserialization(st, a, acc, old, revertible) ==
  [st EXCEPT
     !.changed = IF revertible /\ old # {}
                 THEN MapPut(@, a, CHOOSE o \in old : TRUE) ELSE @,
     !.created = IF revertible /\ old = {} THEN MapPut(@, a, acc) ELSE @,
     !.mem = MapPut(@, a, acc),
     !.trie = UpdateStateTrie(@, a, acc)]

\* Messenger::GetAccountStoreDelta: the entries applied in order; it stops
\* with ok = FALSE at malformed bytes or at a balance or nonce that would go
\* below zero.  capped marks a result beyond the model's bounds.
RECURSIVE GetAccountStoreDelta(_, _, _)
GetAccountStoreDelta(src, st, revertible) ==
  IF src = << >> THEN st
  ELSE IF Len(src) < EntryLen \/ src[1] \notin Addr \/ src[4] \notin 0..1
  THEN [st EXCEPT !.ok = FALSE]
  ELSE
    LET a    == src[1]
        old  == GetAccountIn(st.mem, st.trie, a)
        base == IF old = {} THEN NewAccount ELSE CHOOSE o \in old : TRUE
        bal  == base.balance + UnZigZag(src[2])
        non  == base.nonce + UnZigZag(src[3])
        acc  == [balance |-> bal, nonce |-> non,
                 code |-> IF src[4] # 0 THEN src[4] ELSE base.code]
    IN  IF bal < 0 \/ non < 0 THEN [st EXCEPT !.ok = FALSE]
        ELSE IF bal > MaxBalance \/ non > MaxNonce
        THEN [st EXCEPT !.capped = TRUE]
        ELSE GetAccountStoreDelta(
               SubSeq(src, EntryLen + 1, Len(src)),
               AddAccountDuringDeserialization(st, a, acc, old, revertible),
               revertible)

(* ------------------------------ digests ------------------------------- *)

\* StateHash(): the distinguished empty digest.
StateHash == [empty |-> TRUE, of |-> << >>]

\* SHA2<HASH_VARIANT_256> over a byte sequence (no two inputs collide).
SHA2(bytes) == [empty |-> FALSE, of |-> bytes]

(* --------------------------- initial state ---------------------------- *)

\* AccountStore::AccountStore: an empty engine over empty disk stores.
Init ==
  /\ m_addressToAccount = EmptyMap
  /\ m_state = EmptyMap
  /\ m_prevRoot = EmptyMap
  /\ m_accountStoreTemp = EmptyMap
  /\ m_stateDeltaSerialized = << >>
  /\ m_addressToAccountRevChanged = EmptyMap
  /\ m_addressToAccountRevCreated = EmptyMap
  /\ diskStateRoot = {}
  /\ diskRootReadable = FALSE
  /\ diskContractCode = {}
  /\ calls = 0
  /\ last = Called("AccountStore", TRUE)
  /\ snap = NoSnap
  /\ mutex = AllFree
  /\ pc = [t \in Threads |-> Idle]
  /\ sender = [t \in Threads |-> {}]
  /\ senderFreedBy = [t \in Threads |-> "none"]
  /\ observed = [t \in Threads |-> "none"]

(* ----------------------- reset operations ----------------------------- *)

\* AccountStore::InitSoft: AccountStoreTrie::Init, InitRevertibles, InitTemp.
InitSoft ==
  /\ m_addressToAccount' = EmptyMap
  /\ m_addressToAccountRevChanged' = EmptyMap
  /\ m_addressToAccountRevCreated' = EmptyMap
  /\ m_accountStoreTemp' = EmptyMap
  /\ m_stateDeltaSerialized' = << >>
  /\ Returns(Called("InitSoft", TRUE))
  /\ snap' = NoSnap
  /\ UNCHANGED <<m_state, m_prevRoot, diskStateRoot, diskRootReadable,
                 diskContractCode>>

\* AccountStore::Init: InitSoft, then the contract storage and the trie
\* database are reset.
AccountStore_Init ==
  /\ m_addressToAccount' = EmptyMap
  /\ m_addressToAccountRevChanged' = EmptyMap
  /\ m_addressToAccountRevCreated' = EmptyMap
  /\ m_accountStoreTemp' = EmptyMap
  /\ m_stateDeltaSerialized' = << >>
  /\ diskContractCode' = {}
  /\ m_state' = EmptyMap
  /\ m_prevRoot' = EmptyMap
  /\ diskRootReadable' = FALSE
  /\ Returns(Called("Init", TRUE))
  /\ snap' = NoSnap
  /\ UNCHANGED diskStateRoot

\* AccountStore::InitTemp
InitTemp ==
  /\ m_accountStoreTemp' = EmptyMap
  /\ m_stateDeltaSerialized' = << >>
  /\ Returns(Called("InitTemp", TRUE))
  /\ snap' = NoSnap
  /\ UNCHANGED <<m_addressToAccount, m_state, m_prevRoot,
                 m_addressToAccountRevChanged, m_addressToAccountRevCreated,
                 diskStateRoot, diskRootReadable, diskContractCode>>

\* AccountStore::InitRevertibles
InitRevertibles ==
  /\ m_addressToAccountRevChanged' = EmptyMap
  /\ m_addressToAccountRevCreated' = EmptyMap
  /\ Returns(Called("InitRevertibles", TRUE))
  /\ snap' = NoSnap
  /\ UNCHANGED <<m_addressToAccount, m_state, m_prevRoot, m_accountStoreTemp,
                 m_stateDeltaSerialized, diskStateRoot, diskRootReadable,
                 diskContractCode>>

\* A new process on the same disk stores: the engine is constructed again.
Restart ==
  /\ m_addressToAccount' = EmptyMap
  /\ m_state' = EmptyMap
  /\ m_prevRoot' = EmptyMap
  /\ m_accountStoreTemp' = EmptyMap
  /\ m_stateDeltaSerialized' = << >>
  /\ m_addressToAccountRevChanged' = EmptyMap
  /\ m_addressToAccountRevCreated' = EmptyMap
  /\ Returns(Called("AccountStore", TRUE))
  /\ snap' = IF snap.kind = "moved"
             THEN [snap EXCEPT !.kind = "movedRestarted"] ELSE NoSnap
  /\ UNCHANGED <<diskStateRoot, diskRootReadable, diskContractCode>>

(* ------------------------ temp overlay updates ------------------------ *)

TempFrame ==
  UNCHANGED <<m_addressToAccount, m_state, m_prevRoot, m_stateDeltaSerialized,
              m_addressToAccountRevChanged, m_addressToAccountRevCreated,
              diskStateRoot, diskRootReadable, diskContractCode>>

\* AccountStoreTemp::AddAccount: refused when the overlay already sees one.
AddAccountTemp(a, acc) ==
  /\ IF GetAccountTemp(a) = {}
     THEN /\ m_accountStoreTemp' = MapPut(m_accountStoreTemp, a, acc)
          /\ Returns(Called("AddAccountTemp", TRUE))
     ELSE /\ UNCHANGED m_accountStoreTemp
          /\ Returns(Called("AddAccountTemp", FALSE))
  /\ snap' = NoSnap
  /\ TempFrame

\* AccountStoreTemp::TransferBalance on an overlay mapping: the overlay
\* after the transfer and whether it was made.
TransferBalance(temp, from, to, amount) ==
  LET src == GetAccountTempIn(temp, m_addressToAccount, m_state, from)
      dst == GetAccountTempIn(temp, m_addressToAccount, m_state, to)
  IN  IF src = {} \/ dst = {} THEN [temp |-> temp, ok |-> FALSE]
      ELSE LET s == CHOOSE x \in src : TRUE
           IN  IF s.balance < amount THEN [temp |-> temp, ok |-> FALSE]
               ELSE LET t1 == MapPut(temp, from,
                                     [s EXCEPT !.balance = @ - amount])
                        d  == CHOOSE x \in GetAccountTempIn(
                                 t1, m_addressToAccount, m_state, to) : TRUE
                    IN  [temp |-> MapPut(t1, to,
                                         [d EXCEPT !.balance = @ + amount]),
                         ok |-> TRUE]

InBounds(temp) ==
  \A a \in DOMAIN temp :
     temp[a].balance <= MaxBalance /\ temp[a].nonce <= MaxNonce

\* AccountStore::UpdateCoinbaseTemp
UpdateCoinbaseTemp(rewardee, genesisAddress, amount) ==
  LET t0 == IF GetAccountTemp(rewardee) = {}
            THEN MapPut(m_accountStoreTemp, rewardee, NewAccount)
            ELSE m_accountStoreTemp
      r  == TransferBalance(t0, genesisAddress, rewardee, amount)
  IN  /\ InBounds(r.temp)
      /\ m_accountStoreTemp' = r.temp
      /\ Returns(Called("UpdateCoinbaseTemp", r.ok))
      /\ snap' = NoSnap
      /\ TempFrame

\* AccountStoreTemp::UpdateAccounts: a payment of tx.amount from tx.from to
\* tx.to with the sender's next nonce; rejected (false) when the sender is
\* unknown, the nonce is not the next one or the balance is too small.
UpdateAccounts(temp, tx) ==
  LET src == GetAccountTempIn(temp, m_addressToAccount, m_state, tx.from)
  IN  IF src = {} THEN [temp |-> temp, ok |-> FALSE]
      ELSE LET s == CHOOSE x \in src : TRUE
           IN  IF tx.nonce # s.nonce + 1 \/ s.balance < tx.amount
               THEN [temp |-> temp, ok |-> FALSE]
               ELSE LET t0 == IF GetAccountTempIn(temp, m_addressToAccount,
                                                  m_state, tx.to) = {}
                              THEN MapPut(temp, tx.to, NewAccount) ELSE temp
                        r  == TransferBalance(t0, tx.from, tx.to, tx.amount)
                        n  == CHOOSE x \in GetAccountTempIn(
                                 r.temp, m_addressToAccount, m_state,
                                 tx.from) : TRUE
                    IN  [temp |-> MapPut(r.temp, tx.from,
                                         [n EXCEPT !.nonce = @ + 1]),
                         ok |-> TRUE]

Transaction ==
  [from : Addr, to : Addr, amount : 1..MaxBalance, nonce : 1..MaxNonce]

\* AccountStore::UpdateAccountsTemp
UpdateAccountsTemp(tx) ==
  LET r == UpdateAccounts(m_accountStoreTemp, tx)
  IN  /\ InBounds(r.temp)
      /\ m_accountStoreTemp' = r.temp
      /\ Returns(Called("UpdateAccountsTemp", r.ok))
      /\ snap' = NoSnap
      /\ TempFrame

(* ---------------------------- delta tracker --------------------------- *)

\* What the temp overlay shows for every address.
TempView == [a \in Addr |-> GetAccountTemp(a)]

\* What the primary store shows for every address.
PrimaryView == [a \in Addr |-> GetAccount(a)]

\* AccountStore::SerializeDelta: the stored delta is cleared, then written by
\* Messenger::SetAccountStoreDelta, which may fail (ok = FALSE).
SerializeDelta(ok) ==
  /\ m_stateDeltaSerialized' =
       IF ok THEN SetAccountStoreDelta(m_accountStoreTemp, m_addressToAccount,
                                       m_state)
       ELSE << >>
  /\ Returns(Called("SerializeDelta", ok))
  /\ snap' = IF ok THEN [kind |-> "serialized", mem |-> TempView,
                         trie |-> EmptyMap]
             ELSE NoSnap
  /\ UNCHANGED <<m_addressToAccount, m_state, m_prevRoot, m_accountStoreTemp,
                 m_addressToAccountRevChanged, m_addressToAccountRevCreated,
                 diskStateRoot, diskRootReadable, diskContractCode>>

\* Mutant: the scan stops after the first byte.
StateDeltaHashFirstByte(bytes) ==
  LET isEmpty == \A i \in 1..Len(bytes) : i > 1 \/ bytes[i] = 0
  IN  IF isEmpty THEN StateHash ELSE SHA2(bytes)

\* AccountStore::GetStateDeltaHash on a byte buffer.
StateDeltaHash(bytes) ==
  LET isEmpty == \A i \in 1..Len(bytes) : bytes[i] = 0
  IN  IF isEmpty THEN StateHash ELSE SHA2(bytes)

\* Mutant: the digest is taken of the overlay's current difference, not of
\* the stored delta.
GetStateDeltaHashRecomputes ==
  /\ Returns(Called("GetStateDeltaHash",
                    StateDeltaHash(SetAccountStoreDelta(
                      m_accountStoreTemp, m_addressToAccount, m_state))))
  /\ snap' = NoSnap
  /\ UNCHANGED <<m_addressToAccount, m_state, m_prevRoot, m_accountStoreTemp,
                 m_stateDeltaSerialized, m_addressToAccountRevChanged,
                 m_addressToAccountRevCreated, diskStateRoot, diskRootReadable,
                 diskContractCode>>

\* AccountStore::GetStateDeltaHash
GetStateDeltaHash ==
  /\ Returns(Called("GetStateDeltaHash", StateDeltaHash(m_stateDeltaSerialized)))
  /\ snap' = NoSnap
  /\ UNCHANGED <<m_addressToAccount, m_state, m_prevRoot, m_accountStoreTemp,
                 m_stateDeltaSerialized, m_addressToAccountRevChanged,
                 m_addressToAccountRevCreated, diskStateRoot, diskRootReadable,
                 diskContractCode>>

\* AccountStore::DeserializeDelta: src, read from offset, applied to the
\* primary store; the store it leaves and, in ok, what it returns.
DeserializeDelta(src, offset, revertible, changed, created) ==
  GetAccountStoreDelta(
    SubSeq(src, offset + 1, Len(src)),
    Store(m_addressToAccount, m_state, changed, created), revertible)

CommitFrame ==
  UNCHANGED <<m_prevRoot, m_accountStoreTemp, m_stateDeltaSerialized,
              diskStateRoot, diskRootReadable, diskContractCode>>

(* ------------------------ commit / revert protocol -------------------- *)

\* The delta read from offset is merged into the primary store.
CommitTempFrom(offset) ==
  LET st == DeserializeDelta(m_stateDeltaSerialized, offset, FALSE,
                             m_addressToAccountRevChanged,
                             m_addressToAccountRevCreated)
  IN  /\ ~st.capped
      /\ m_addressToAccount' = st.mem
      /\ m_state' = st.trie
      /\ UNCHANGED <<m_addressToAccountRevChanged,
                     m_addressToAccountRevCreated>>
      /\ Returns(Called("CommitTemp", st.ok))
      /\ snap' = IF snap.kind = "serialized"
                 THEN [snap EXCEPT !.kind = "committed"] ELSE NoSnap
      /\ CommitFrame

\* Mutant: the delta is read past its first entry.
CommitTempSkipsEntry == CommitTempFrom(EntryLen)

\* AccountStore::CommitTemp
CommitTemp == CommitTempFrom(0)

\* AccountStore::CommitTempRevertible: InitRevertibles, then the delta is
\* applied with every touched account recorded first.
CommitTempRevertible ==
  LET st == DeserializeDelta(m_stateDeltaSerialized, 0, TRUE, EmptyMap,
                             EmptyMap)
  IN  /\ ~st.capped
      /\ m_addressToAccount' = st.mem
      /\ m_state' = st.trie
      /\ m_addressToAccountRevChanged' = st.changed
      /\ m_addressToAccountRevCreated' = st.created
      /\ Returns(Called("CommitTempRevertible", st.ok))
      /\ snap' = [kind |-> "commitRev", mem |-> m_addressToAccount,
                  trie |-> m_state]
      /\ CommitFrame

\* The first loop of RevertCommitTemp: every changed account gets its
\* recorded value back, in the mapping and in the trie.
RECURSIVE RevertChanged(_, _)
RevertChanged(st, todo) ==
  IF todo = {} THEN st
  ELSE LET a == CHOOSE x \in todo : TRUE
       IN  RevertChanged(
             [st EXCEPT !.mem = MapPut(@, a, st.changed[a]),
                        !.trie = UpdateStateTrie(@, a, st.changed[a])],
             todo \ {a})

\* Mutant: a created account is removed from the mapping only.
RECURSIVE RevertCreatedKeepsLeaf(_, _)
RevertCreatedKeepsLeaf(st, todo) ==
  IF todo = {} THEN st
  ELSE LET a == CHOOSE x \in todo : TRUE
       IN  RevertCreatedKeepsLeaf([st EXCEPT !.mem = MapErase(@, a)],
                                  todo \ {a})

\* The second loop of RevertCommitTemp: every created account is removed
\* from the mapping and from the trie.
RECURSIVE RevertCreated(_, _)
RevertCreated(st, todo) ==
  IF todo = {} THEN st
  ELSE LET a == CHOOSE x \in todo : TRUE
       IN  RevertCreated(
             [st EXCEPT !.mem = MapErase(@, a),
                        !.trie = RemoveFromTrie(@, a)],
             todo \ {a})

\* AccountStore::RevertCommitTemp
RevertCommitTemp ==
  LET st0 == Store(m_addressToAccount, m_state, m_addressToAccountRevChanged,
                   m_addressToAccountRevCreated)
      st1 == RevertChanged(st0, DOMAIN m_addressToAccountRevChanged)
      st2 == RevertCreated(st1, DOMAIN m_addressToAccountRevCreated)
  IN  /\ m_addressToAccount' = st2.mem
      /\ m_state' = st2.trie
      /\ UNCHANGED <<m_addressToAccountRevChanged,
                     m_addressToAccountRevCreated>>
      /\ Returns(Called("RevertCommitTemp", TRUE))
      /\ snap' = IF snap.kind = "commitRev"
                 THEN [snap EXCEPT !.kind = "reverted"] ELSE NoSnap
      /\ CommitFrame

(* --------------------------- disk persistence ------------------------- *)

\* AccountStore::MoveRootToDisk: STATEROOT after PutMetadata, which may fail.
MoveRootToDisk(root, putOk) == IF putOk THEN {root} ELSE diskStateRoot

\* The contract accounts of the mapping whose code is not stored yet.
CodeBatch ==
  {a \in DOMAIN m_addressToAccount :
     isContract(m_addressToAccount[a]) /\ a \notin diskContractCode}

\* What a call of MoveUpdatesToDisk returned, the code batch it staged,
\* whether the trie transaction was committed and which steps failed.
Moved(ret, batch, committed, failed) ==
  [op |-> "MoveUpdatesToDisk", ret |-> ret, code_batch |-> batch,
   committed |-> committed, failed |-> failed]

\* The body of MoveUpdatesToDisk: what it leaves in the mapping, the roots
\* and the disk stores, and what it returns.  batchOk, stateOk, deleteOk,
\* putOk: what PutContractCodeBatch, CommitStateDB, DeleteContractCode and
\* PutMetadata return; commitThrows: m_state.db()->commit() throws.
MoveOutcome(batchOk, stateOk, deleteOk, commitThrows, putOk) ==
  LET code_batch == CodeBatch
      stored     == diskContractCode \cup code_batch
      kept       == IF ~stateOk /\ deleteOk THEN stored \ code_batch
                    ELSE stored
      failed     == IF stateOk THEN {} ELSE {"contract state"}
      before     == [mem |-> m_addressToAccount, prevRoot |-> m_prevRoot,
                     root |-> diskStateRoot, readable |-> diskRootReadable,
                     code |-> diskContractCode,
                     result |-> Moved(FALSE, code_batch, FALSE,
                                      {"code batch"})]
  IN  IF ~batchOk THEN before
      ELSE IF commitThrows
      THEN [before EXCEPT
              !.code = kept,
              !.result = Moved(FALSE, code_batch, FALSE,
                               failed \cup {"trie commit"})]
      ELSE [mem |-> EmptyMap, prevRoot |-> m_state,
            root |-> MoveRootToDisk(m_state, putOk),
            readable |-> (putOk \/ diskRootReadable),
            code |-> kept,
            result |-> Moved(TRUE, code_batch, TRUE,
                             failed \cup (IF putOk THEN {}
                                          ELSE {"root write"}))]

\* The engine after a call of MoveUpdatesToDisk with outcome r.
MoveApplied(r) ==
  /\ m_addressToAccount' = r.mem
  /\ m_prevRoot' = r.prevRoot
  /\ diskStateRoot' = r.root
  /\ diskRootReadable' = r.readable
  /\ diskContractCode' = r.code
  /\ Returns(r.result)
  /\ snap' = [kind |-> IF r.result.ret THEN "moved" ELSE "moveFailed",
              mem |-> m_addressToAccount, trie |-> m_state]
  /\ UNCHANGED <<m_state, m_accountStoreTemp, m_stateDeltaSerialized,
                 m_addressToAccountRevChanged, m_addressToAccountRevCreated>>

\* Mutant: the mapping is cleared before the trie commit is attempted.
MoveUpdatesToDiskClearsFirst(batchOk, stateOk, deleteOk, commitThrows, putOk) ==
  MoveApplied([MoveOutcome(batchOk, stateOk, deleteOk, commitThrows, putOk)
                 EXCEPT !.mem = IF batchOk THEN EmptyMap ELSE @])

\* AccountStore::MoveUpdatesToDisk
MoveUpdatesToDisk(batchOk, stateOk, deleteOk, commitThrows, putOk) ==
  MoveApplied(MoveOutcome(batchOk, stateOk, deleteOk, commitThrows, putOk))

\* AccountStore::DiscardUnsavedUpdates.  rollbackThrows: m_state.db()->
\* rollback() throws, which is logged.
DiscardUnsavedUpdates(rollbackThrows) ==
  /\ IF rollbackThrows
     THEN UNCHANGED <<m_state, m_addressToAccount>>
     ELSE /\ m_state' = m_prevRoot
          /\ m_addressToAccount' = EmptyMap
  /\ Returns(Called("DiscardUnsavedUpdates", ~rollbackThrows))
  /\ snap' = IF snap.kind = "movedRetrieved" /\ last.ret /\ ~rollbackThrows
             THEN [snap EXCEPT !.kind = "reloadDiscarded"] ELSE NoSnap
  /\ UNCHANGED <<m_prevRoot, m_accountStoreTemp, m_stateDeltaSerialized,
                 m_addressToAccountRevChanged, m_addressToAccountRevCreated,
                 diskStateRoot, diskRootReadable, diskContractCode>>

\* The loop of RetrieveFromDisk: every leaf that deserializes becomes an
\* entry of the mapping, the others are skipped.
LoadAccounts(trie) ==
  [a \in {x \in DOMAIN trie : DeserializeBase(trie[x]) # {}} |->
     CHOOSE acc \in DeserializeBase(trie[a]) : TRUE]

\* AccountStore::RetrieveFromDisk: InitSoft, then the trie is set to the
\* persisted root and its leaves are loaded.
RetrieveFromDisk ==
  /\ m_addressToAccountRevChanged' = EmptyMap
  /\ m_addressToAccountRevCreated' = EmptyMap
  /\ m_accountStoreTemp' = EmptyMap
  /\ m_stateDeltaSerialized' = << >>
  /\ IF diskStateRoot = {} \/ ~diskRootReadable
     THEN /\ m_addressToAccount' = EmptyMap
          /\ UNCHANGED m_state
          /\ Returns(Called("RetrieveFromDisk", FALSE))
     ELSE LET root == CHOOSE r \in diskStateRoot : TRUE
          IN  /\ m_state' = root
              /\ m_addressToAccount' = LoadAccounts(root)
              /\ Returns(Called("RetrieveFromDisk", TRUE))
  /\ snap' = IF snap.kind = "movedRestarted"
             THEN [snap EXCEPT !.kind = "movedRetrieved"] ELSE NoSnap
  /\ UNCHANGED <<m_prevRoot, diskStateRoot, diskRootReadable,
                 diskContractCode>>

(* --------------------------- specification ---------------------------- *)

\* What the collaborators of MoveUpdatesToDisk may answer; an answer that is
\* never asked for (after an early return, or a delete with nothing to
\* undo) is left at its normal value.
MoveOutcomes ==
  {o \in [batchOk : BOOLEAN, stateOk : BOOLEAN, deleteOk : BOOLEAN,
          commitThrows : BOOLEAN, putOk : BOOLEAN] :
     /\ (~o.batchOk => o.stateOk /\ ~o.commitThrows)
     /\ (o.stateOk => o.deleteOk)
     /\ (o.commitThrows => o.putOk)}

\* The accounts AddAccount is called with.
AccountArgs == [balance : {MaxBalance}, nonce : {0}, code : 0..1]

Next ==
  \/ InitSoft
  \/ AccountStore_Init
  \/ InitTemp
  \/ InitRevertibles
  \/ Restart
  \/ \E a \in Addr, acc \in AccountArgs : AddAccountTemp(a, acc)
  \/ \E r \in Addr, g \in Addr, n \in 1..MaxBalance :
        UpdateCoinbaseTemp(r, g, n)
  \/ \E tx \in Transaction : UpdateAccountsTemp(tx)
  \/ \E ok \in BOOLEAN : SerializeDelta(ok)
  \/ GetStateDeltaHash
  \/ CommitTemp
  \/ CommitTempRevertible
  \/ RevertCommitTemp
  \/ \E o \in MoveOutcomes :
        MoveUpdatesToDisk(o.batchOk, o.stateOk, o.deleteOk, o.commitThrows,
                          o.putOk)
  \/ \E rollbackThrows \in BOOLEAN : DiscardUnsavedUpdates(rollbackThrows)
  \/ RetrieveFromDisk

Spec == Init /\ [][Next]_vars

(* ---------------- stored delta bytes of any content ------------------- *)

MaxDeltaLen == 5
MaxByte == 1

RECURSIVE BytesUpTo(_)
BytesUpTo(n) ==
  IF n = 0 THEN {<< >>}
  ELSE LET shorter == BytesUpTo(n - 1)
       IN  shorter \cup {Append(b, x) : b \in shorter, x \in 0..MaxByte}

\* The engine with a stored delta of arbitrary bytes.
InitDelta ==
  /\ m_addressToAccount = EmptyMap
  /\ m_state = EmptyMap
  /\ m_prevRoot = EmptyMap
  /\ m_accountStoreTemp = EmptyMap
  /\ m_stateDeltaSerialized \in BytesUpTo(MaxDeltaLen)
  /\ m_addressToAccountRevChanged = EmptyMap
  /\ m_addressToAccountRevCreated = EmptyMap
  /\ diskStateRoot = {}
  /\ diskRootReadable = FALSE
  /\ diskContractCode = {}
  /\ calls = 0
  /\ last = Called("AccountStore", TRUE)
  /\ snap = NoSnap
  /\ mutex = AllFree
  /\ pc = [t \in Threads |-> Idle]
  /\ sender = [t \in Threads |-> {}]
  /\ senderFreedBy = [t \in Threads |-> "none"]
  /\ observed = [t \in Threads |-> "none"]

NextDelta ==
  \/ GetStateDeltaHash
  \/ InitTemp

SpecDeltaHash == InitDelta /\ [][NextDelta]_vars

(* ------------------------ transaction submission ---------------------- *)

\* What CreateTransaction hands back: the JSON value it returns (EmptyJson
\* is Json::Value()), the exception it throws, and the step that rejected
\* the transaction.
Responded(ret, thrown, rejectedBy) ==
  [op |-> "CreateTransaction", ret |-> ret, thrown |-> thrown,
   rejectedBy |-> rejectedBy]

EmptyJson == "null"

\* TransactionReceipt::GetJsonValue after UpdateAccounts: the receipt of a
\* transaction that ran; for a rejected one, the receipt as constructed
\* unless the execution wrote its error into it (wrote).
ReceiptJson(ok, wrote) ==
  IF ok THEN "receipt" ELSE IF wrote THEN "receipt with errors" ELSE EmptyJson

\* IsolatedServer::CreateTransaction.  wellFormed: checkJsonTx accepts the
\* JSON; valid: what ValidateTxn returns; wrote: see ReceiptJson; serOk:
\* what Messenger::SetAccountStoreDelta returns inside SerializeDelta.
CreateTransaction(tx, wellFormed, valid, wrote, serOk) ==
  LET r     == UpdateAccounts(m_accountStoreTemp, tx)
      delta == IF serOk
               THEN SetAccountStoreDelta(r.temp, m_addressToAccount, m_state)
               ELSE << >>
      st    == GetAccountStoreDelta(
                 delta,
                 Store(m_addressToAccount, m_state,
                       m_addressToAccountRevChanged,
                       m_addressToAccountRevCreated),
                 FALSE)
  IN  /\ snap' = NoSnap
      /\ UNCHANGED <<m_prevRoot, m_addressToAccountRevChanged,
                     m_addressToAccountRevCreated, diskStateRoot,
                     diskRootReadable, diskContractCode>>
      /\ IF ~wellFormed
         THEN /\ Returns(Responded(EmptyJson, "RPC_PARSE_ERROR", "none"))
              /\ UNCHANGED <<m_addressToAccount, m_state, m_accountStoreTemp,
                             m_stateDeltaSerialized>>
         ELSE IF ~valid
         THEN /\ Returns(Responded(EmptyJson, "none", "ValidateTxn"))
              /\ UNCHANGED <<m_addressToAccount, m_state, m_accountStoreTemp,
                             m_stateDeltaSerialized>>
         ELSE /\ InBounds(r.temp)
              /\ ~st.capped
              /\ m_accountStoreTemp' = r.temp
              /\ m_stateDeltaSerialized' = delta
              /\ m_addressToAccount' = st.mem
              /\ m_state' = st.trie
              /\ Returns(Responded(
                   ReceiptJson(r.ok, wrote), "none",
                   IF r.ok THEN "none" ELSE "UpdateAccountsTemp"))

\* The submission endpoint over an engine whose accounts were put there by
\* temp updates that were serialized and committed.
NextServer ==
  \/ \E tx \in Transaction, wellFormed \in BOOLEAN, valid \in BOOLEAN,
        wrote \in BOOLEAN, serOk \in BOOLEAN :
        CreateTransaction(tx, wellFormed, valid, wrote, serOk)
  \/ \E a \in Addr, acc \in AccountArgs : AddAccountTemp(a, acc)
  \/ \E ok \in BOOLEAN : SerializeDelta(ok)
  \/ CommitTemp
  \/ InitTemp

SpecServer == Init /\ [][NextServer]_vars

(* ------------------- threads on one shared instance ------------------- *)

\* The steps a call is made of.  l: the mutexes of a lock step; reads,
\* writes: the resource groups a step of the body touches ("mapping": the
\* in-memory mapping, the trie and the roots; "temp": the temp overlay;
\* "delta": the stored delta bytes; "revertibles": the changed and created
\* maps; "db": the pending disk transaction); skip: the steps an early
\* return jumps over.
Step(i, l, reads, writes, skip) ==
  [i |-> i, l |-> l, reads |-> reads, writes |-> writes, skip |-> skip]

\* lock_guard<mutex> / unique_lock<shared_timed_mutex> on one mutex
Lock(l) == Step("lock", {l}, {}, {}, 0)

\* shared_lock<shared_timed_mutex> on m_mutexPrimary
LockShared == Step("lock_shared", {"primary"}, {}, {}, 0)

\* std::lock on several mutexes, each locked exclusively
StdLock(ls) == Step("std_lock", ls, {}, {}, 0)

\* the destructor of a lock_guard or unique_lock
Unlock(l) == Step("unlock", {l}, {}, {}, 0)

\* the destructor of a shared_lock: unlock_shared()
UnlockShared == Step("unlock_shared", {"primary"}, {}, {}, 0)

Touch(reads, writes) == Step("touch", {}, reads, writes, 0)

\* an early return that leaves out the next skip steps of the body
MayReturn(skip) == Step("branch", {}, {}, {}, skip)

\* m_addressToAccount->clear()
ClearMapping(reads, writes) ==
  Step("clear", {}, reads, writes \cup {"mapping"}, 0)

\* an account is inserted into m_addressToAccount or overwritten there
InsertAccount(reads, writes) ==
  Step("insert", {}, reads, writes \cup {"mapping"}, 0)

\* RemoveAccount: an entry of m_addressToAccount is erased
EraseAccount(reads, writes) ==
  Step("erase", {}, reads, writes \cup {"mapping"}, 0)

\* GetAccount hands out a pointer to the entry of the mapping
GetAccountPtr == Step("get", {}, {"mapping"}, {}, 0)

\* the account behind the pointer is read
UseAccountPtr == Step("use", {}, {}, {}, 0)

\* AccountStore::InitRevertibles
InitRevertiblesSteps ==
  <<Lock("revertibles"), Touch({}, {"revertibles"}), Unlock("revertibles")>>

\* AccountStore::InitTemp
InitTempSteps ==
  <<Lock("delta"), Touch({}, {"temp", "delta"}), Unlock("delta")>>

\* AccountStore::InitSoft
InitSoftSteps ==
  <<Lock("primary"), ClearMapping({}, {})>>
  \o InitRevertiblesSteps \o InitTempSteps \o <<Unlock("primary")>>

\* AccountStore::Init
InitSteps ==
  InitSoftSteps \o <<Lock("db"), Touch({}, {"db"}), Unlock("db")>>

\* AccountStore::Serialize
SerializeSteps == <<LockShared, Touch({"mapping"}, {}), UnlockShared>>

\* AccountStore::Deserialize
DeserializeSteps ==
  InitSteps
  \o <<Lock("primary"), MayReturn(0), InsertAccount({}, {}),
       Unlock("primary")>>

\* AccountStore::SerializeDelta: std::lock locks both mutexes exclusively;
\* m_mutexPrimary is then adopted by a shared_lock, which releases it with
\* unlock_shared().
SerializeDeltaSteps ==
  <<StdLock({"delta", "primary"}), Touch({"temp", "mapping"}, {"delta"}),
    UnlockShared, Unlock("delta")>>

\* AccountStore::GetSerializedDelta
GetSerializedDeltaSteps ==
  <<Lock("delta"), Touch({"delta"}, {}), Unlock("delta")>>

\* AccountStore::DeserializeDelta.  stored: src is m_stateDeltaSerialized
\* itself, as in CommitTemp and CommitTempRevertible.
DeserializeDeltaSteps(revertible, stored) ==
  LET src == IF stored THEN {"delta"} ELSE {}
  IN  IF revertible
      THEN <<StdLock({"primary", "revertibles"}),
             InsertAccount(src, {"revertibles"}),
             Unlock("revertibles"), Unlock("primary")>>
      ELSE <<Lock("primary"), InsertAccount(src, {}), Unlock("primary")>>

\* AccountStore::DeserializeDeltaTemp
DeserializeDeltaTempSteps ==
  <<Lock("delta"), Touch({}, {"temp"}), Unlock("delta")>>

\* AccountStore::MoveUpdatesToDisk
MoveUpdatesToDiskSteps ==
  <<StdLock({"primary", "db"}), Touch({"mapping"}, {"mapping", "db"}),
    MayReturn(1), ClearMapping({}, {}), Unlock("db"), Unlock("primary")>>

\* AccountStore::DiscardUnsavedUpdates
DiscardUnsavedUpdatesSteps ==
  <<StdLock({"primary", "db"}), MayReturn(1), ClearMapping({}, {"db"}),
    Unlock("db"), Unlock("primary")>>

\* AccountStore::RetrieveFromDisk
RetrieveFromDiskSteps ==
  InitSoftSteps
  \o <<StdLock({"primary", "db"}), MayReturn(1), InsertAccount({"db"}, {}),
       Unlock("db"), Unlock("primary")>>

\* AccountStore::UpdateAccountsTemp
UpdateAccountsTempSteps ==
  <<Lock("delta"), Touch({"temp"}, {"temp"}), Unlock("delta")>>

\* AccountStore::UpdateCoinbaseTemp
UpdateCoinbaseTempSteps ==
  <<Lock("delta"), Touch({"temp"}, {"temp"}), Unlock("delta")>>

\* AccountStore::GetNonceTemp
GetNonceTempSteps ==
  <<Lock("delta"), Touch({"temp", "mapping"}, {}), Unlock("delta")>>

\* AccountStore::GetStateDeltaHash
GetStateDeltaHashSteps ==
  <<Lock("delta"), Touch({"delta"}, {}), Unlock("delta")>>

\* AccountStore::CommitTemp
CommitTempSteps == DeserializeDeltaSteps(FALSE, TRUE)

\* AccountStore::CommitTempRevertible
CommitTempRevertibleSteps ==
  InitRevertiblesSteps \o DeserializeDeltaSteps(TRUE, TRUE)

\* AccountStore::RevertCommitTemp
RevertCommitTempSteps ==
  <<Lock("primary"), InsertAccount({"revertibles"}, {}),
    EraseAccount({"revertibles"}, {}), Unlock("primary")>>

\* AccountStore::GetAccount: a shared acquisition around the lookup
GetAccountSteps == <<LockShared, GetAccountPtr, UnlockShared>>

\* IsolatedServer::CreateTransaction: the sender is looked up, validated
\* through the pointer, and the transaction is run, serialized and committed
\* unless validation fails.
CreateTransactionSteps ==
  GetAccountSteps
  \o <<UseAccountPtr,
       MayReturn(Len(UpdateAccountsTempSteps) + Len(SerializeDeltaSteps)
                 + Len(CommitTempSteps))>>
  \o UpdateAccountsTempSteps \o SerializeDeltaSteps \o CommitTempSteps

Ops ==
  {"Init", "InitSoft", "InitTemp", "InitRevertibles", "Serialize",
   "Deserialize", "SerializeDelta", "GetSerializedDelta", "DeserializeDelta",
   "DeserializeDeltaRevertible", "DeserializeDeltaTemp", "MoveUpdatesToDisk",
   "DiscardUnsavedUpdates", "RetrieveFromDisk", "UpdateAccountsTemp",
   "UpdateCoinbaseTemp", "GetNonceTemp", "GetStateDeltaHash", "CommitTemp",
   "CommitTempRevertible", "RevertCommitTemp", "CreateTransaction"}

\* The steps of each operation.
Program(op) ==
  CASE op = "Init" -> InitSteps
    [] op = "InitSoft" -> InitSoftSteps
    [] op = "InitTemp" -> InitTempSteps
    [] op = "InitRevertibles" -> InitRevertiblesSteps
    [] op = "Serialize" -> SerializeSteps
    [] op = "Deserialize" -> DeserializeSteps
    [] op = "SerializeDelta" -> SerializeDeltaSteps
    [] op = "GetSerializedDelta" -> GetSerializedDeltaSteps
    [] op = "DeserializeDelta" -> DeserializeDeltaSteps(FALSE, FALSE)
    [] op = "DeserializeDeltaRevertible" -> DeserializeDeltaSteps(TRUE, FALSE)
    [] op = "DeserializeDeltaTemp" -> DeserializeDeltaTempSteps
    [] op = "MoveUpdatesToDisk" -> MoveUpdatesToDiskSteps
    [] op = "DiscardUnsavedUpdates" -> DiscardUnsavedUpdatesSteps
    [] op = "RetrieveFromDisk" -> RetrieveFromDiskSteps
    [] op = "UpdateAccountsTemp" -> UpdateAccountsTempSteps
    [] op = "UpdateCoinbaseTemp" -> UpdateCoinbaseTempSteps
    [] op = "GetNonceTemp" -> GetNonceTempSteps
    [] op = "GetStateDeltaHash" -> GetStateDeltaHashSteps
    [] op = "CommitTemp" -> CommitTempSteps
    [] op = "CommitTempRevertible" -> CommitTempRevertibleSteps
    [] op = "RevertCommitTemp" -> RevertCommitTempSteps
    [] op = "CreateTransaction" -> CreateTransactionSteps

Running(t) == pc[t] # Idle

\* The step thread t is at.
Instr(t) == Program(pc[t].op)[pc[t].at]

At(t, i) == Running(t) /\ Instr(t).i = i

\* The mutexes thread t holds.
Held(t) ==
  {l \in {"delta", "revertibles", "db"} : t \in mutex[l]}
  \cup (IF t \in mutex.primary.writer \cup mutex.primary.readers
        THEN {"primary"} ELSE {})

\* Mutex l can be locked exclusively.
Free(l) ==
  IF l = "primary"
  THEN /\ ~mutex.primary.wedged
       /\ mutex.primary.writer = {}
       /\ mutex.primary.readers = {}
  ELSE mutex[l] = {}

\* The mutexes after thread t locked l exclusively.
Locked(m, t, l) ==
  IF l = "primary" THEN [m EXCEPT !.primary.writer = {t}]
  ELSE [m EXCEPT ![l] = {t}]

RECURSIVE LockedAll(_, _, _)
LockedAll(m, t, ls) ==
  IF ls = {} THEN m
  ELSE LET l == CHOOSE x \in ls : TRUE
       IN  LockedAll(Locked(m, t, l), t, ls \ {l})

\* Thread t moves n steps on, out of the call after its last step.
Advance(t, n) ==
  pc' = [pc EXCEPT ![t] =
           IF @.at + n > Len(Program(@.op)) THEN Idle
           ELSE [@ EXCEPT !.at = @ + n]]

LockFrame ==
  UNCHANGED <<m_state, m_prevRoot, m_accountStoreTemp, m_stateDeltaSerialized,
              m_addressToAccountRevChanged, m_addressToAccountRevCreated,
              diskStateRoot, diskRootReadable, diskContractCode, calls, last,
              snap>>

\* A thread calls an operation of the engine.
StartCall(t, op) ==
  /\ pc[t] = Idle
  /\ pc' = [pc EXCEPT ![t] = [op |-> op, at |-> 1]]
  /\ sender' = [sender EXCEPT ![t] = {}]
  /\ senderFreedBy' = [senderFreedBy EXCEPT ![t] = "none"]
  /\ observed' = [observed EXCEPT ![t] = "none"]
  /\ UNCHANGED <<mutex, m_addressToAccount>>
  /\ LockFrame

\* mutex::lock, shared_timed_mutex::lock: blocks until the mutex is free.
Acquire(t) ==
  /\ At(t, "lock")
  /\ \E l \in Instr(t).l : Free(l) /\ mutex' = Locked(mutex, t, l)
  /\ Advance(t, 1)
  /\ UNCHANGED <<sender, senderFreedBy, observed, m_addressToAccount>>
  /\ LockFrame

\* shared_timed_mutex::lock_shared: blocks while there is a writer.
AcquireShared(t) ==
  /\ At(t, "lock_shared")
  /\ ~mutex.primary.wedged
  /\ mutex.primary.writer = {}
  /\ mutex' = [mutex EXCEPT !.primary.readers = @ \cup {t}]
  /\ Advance(t, 1)
  /\ UNCHANGED <<sender, senderFreedBy, observed, m_addressToAccount>>
  /\ LockFrame

\* std::lock: returns with every mutex locked; while it waits for one it
\* holds none of them.
AcquireAll(t) ==
  /\ At(t, "std_lock")
  /\ \A l \in Instr(t).l : Free(l)
  /\ mutex' = LockedAll(mutex, t, Instr(t).l)
  /\ Advance(t, 1)
  /\ UNCHANGED <<sender, senderFreedBy, observed, m_addressToAccount>>
  /\ LockFrame

\* mutex::unlock, shared_timed_mutex::unlock
Release(t) ==
  /\ At(t, "unlock")
  /\ \E l \in Instr(t).l :
        mutex' = IF l = "primary" THEN [mutex EXCEPT !.primary.writer = {}]
                 ELSE [mutex EXCEPT ![l] = {}]
  /\ Advance(t, 1)
  /\ UNCHANGED <<sender, senderFreedBy, observed, m_addressToAccount>>
  /\ LockFrame

\* shared_timed_mutex::unlock_shared by a thread that holds it shared
ReleaseShared(t) ==
  /\ At(t, "unlock_shared")
  /\ t \in mutex.primary.readers
  /\ mutex' = [mutex EXCEPT !.primary.readers = @ \ {t}]
  /\ Advance(t, 1)
  /\ UNCHANGED <<sender, senderFreedBy, observed, m_addressToAccount>>
  /\ LockFrame

\* shared_timed_mutex::unlock_shared by a thread that holds it exclusively:
\* undefined behaviour.  Over pthread_rwlock_t the one unlock call frees the
\* mutex; with the portable implementation the reader count underflows and
\* no later lock() or lock_shared() returns.
ReleaseSharedHeldExclusive(t) ==
  /\ At(t, "unlock_shared")
  /\ t \in mutex.primary.writer
  /\ \E corrupts \in BOOLEAN :
        mutex' = [mutex EXCEPT !.primary.writer = {},
                               !.primary.wedged = corrupts]
  /\ Advance(t, 1)
  /\ UNCHANGED <<sender, senderFreedBy, observed, m_addressToAccount>>
  /\ LockFrame

\* A step of the body that leaves the mapping's entries in place.
Access(t) ==
  /\ At(t, "touch")
  /\ Advance(t, 1)
  /\ UNCHANGED <<mutex, sender, senderFreedBy, observed, m_addressToAccount>>
  /\ LockFrame

\* The call goes on, or returns early past the next skip steps.
Branch(t) ==
  /\ At(t, "branch")
  /\ \E early \in BOOLEAN : Advance(t, IF early THEN 1 + Instr(t).skip ELSE 1)
  /\ UNCHANGED <<mutex, sender, senderFreedBy, observed, m_addressToAccount>>
  /\ LockFrame

\* m_addressToAccount->clear(): every account of the mapping is destroyed.
Clear(t) ==
  /\ At(t, "clear")
  /\ m_addressToAccount' = EmptyMap
  /\ senderFreedBy' =
       [u \in Threads |->
          IF sender[u] # {} /\ senderFreedBy[u] = "none" THEN pc[t].op
          ELSE senderFreedBy[u]]
  /\ Advance(t, 1)
  /\ UNCHANGED <<mutex, sender, observed>>
  /\ LockFrame

\* An account is written into the mapping; the accounts already there stay
\* where they are.
Insert(t) ==
  /\ At(t, "insert")
  /\ \E a \in Addr :
        m_addressToAccount' = MapPut(m_addressToAccount, a, NewAccount)
  /\ Advance(t, 1)
  /\ UNCHANGED <<mutex, sender, senderFreedBy, observed>>
  /\ LockFrame

\* RemoveAccount: the account of one address, if any, is destroyed.
Erase(t) ==
  /\ At(t, "erase")
  /\ \E a \in Addr :
        /\ m_addressToAccount' = MapErase(m_addressToAccount, a)
        /\ senderFreedBy' =
             [u \in Threads |->
                IF /\ a \in DOMAIN m_addressToAccount
                   /\ sender[u] = {a}
                   /\ senderFreedBy[u] = "none"
                THEN pc[t].op ELSE senderFreedBy[u]]
  /\ Advance(t, 1)
  /\ UNCHANGED <<mutex, sender, observed>>
  /\ LockFrame

\* GetAccount(fromAddr): a pointer to the account in the mapping, nullptr
\* when there is none.
GetPtr(t) ==
  /\ At(t, "get")
  /\ \E a \in Addr :
        sender' = [sender EXCEPT ![t] =
                     IF a \in DOMAIN m_addressToAccount THEN {a} ELSE {}]
  /\ senderFreedBy' = [senderFreedBy EXCEPT ![t] = "none"]
  /\ Advance(t, 1)
  /\ UNCHANGED <<mutex, observed, m_addressToAccount>>
  /\ LockFrame

\* ValidateTxn(tx, fromAddr, sender) reads the account behind the pointer.
UsePtr(t) ==
  /\ At(t, "use")
  /\ observed' = [observed EXCEPT ![t] =
                    IF sender[t] = {} THEN "none"
                    ELSE IF senderFreedBy[t] # "none" THEN "freed"
                    ELSE "account"]
  /\ Advance(t, 1)
  /\ UNCHANGED <<mutex, sender, senderFreedBy, m_addressToAccount>>
  /\ LockFrame

\* One step of thread t inside a call.
ThreadStep(t) ==
  \/ Acquire(t)
  \/ AcquireShared(t)
  \/ AcquireAll(t)
  \/ Release(t)
  \/ ReleaseShared(t)
  \/ ReleaseSharedHeldExclusive(t)
  \/ Access(t)
  \/ Branch(t)
  \/ Clear(t)
  \/ Insert(t)
  \/ Erase(t)
  \/ GetPtr(t)
  \/ UsePtr(t)

NextLocks ==
  \/ \E t \in Threads, op \in Ops : StartCall(t, op)
  \/ \E t \in Threads : Acquire(t)
  \/ \E t \in Threads : AcquireShared(t)
  \/ \E t \in Threads : AcquireAll(t)
  \/ \E t \in Threads : Release(t)
  \/ \E t \in Threads : ReleaseShared(t)
  \/ \E t \in Threads : ReleaseSharedHeldExclusive(t)
  \/ \E t \in Threads : Access(t)
  \/ \E t \in Threads : Branch(t)
  \/ \E t \in Threads : Clear(t)
  \/ \E t \in Threads : Insert(t)
  \/ \E t \in Threads : Erase(t)
  \/ \E t \in Threads : GetPtr(t)
  \/ \E t \in Threads : UsePtr(t)

SpecLocks == Init /\ [][NextLocks]_vars

(* ------------------------------ claims -------------------------------- *)

\* C1: commit_temp_revertible() followed at once by revert_commit_temp()
\* leaves the primary store as it was before the commit: every address reads
\* as before, the trie staging is the same, the entries the mapping had are
\* unchanged, every changed account is back at its pre-commit value and
\* every created account is absent from the mapping and from the trie.
C1_RevertRestoresPreCommit ==
  snap.kind = "reverted" =>
    /\ \A a \in Addr : GetAccount(a) = GetAccountIn(snap.mem, snap.trie, a)
    /\ m_state = snap.trie
    /\ \A a \in DOMAIN snap.mem :
          a \in DOMAIN m_addressToAccount
          /\ m_addressToAccount[a] = snap.mem[a]
    /\ \A a \in DOMAIN m_addressToAccountRevChanged :
          a \in DOMAIN m_addressToAccount
          /\ {m_addressToAccount[a]} = GetAccountIn(snap.mem, snap.trie, a)
    /\ \A a \in DOMAIN m_addressToAccountRevCreated :
          a \notin DOMAIN m_addressToAccount /\ a \notin DOMAIN m_state

\* C1 as stated: commit_temp_revertible() followed at once by
\* revert_commit_temp() leaves the in-memory mapping and the trie staging
\* identical to what they were before the commit.
C1_RevertLeavesMappingIdentical ==
  snap.kind = "reverted" =>
    m_addressToAccount = snap.mem /\ m_state = snap.trie

\* C1 witness: a revert right after a commit that changed one account to
\* another value and created another account.
C1_Witness ==
  /\ snap.kind = "reverted"
  /\ last.op = "RevertCommitTemp"
  /\ m_addressToAccountRevCreated # EmptyMap
  /\ \E a \in DOMAIN m_addressToAccountRevChanged :
        /\ a \in DOMAIN m_accountStoreTemp
        /\ m_accountStoreTemp[a] # m_addressToAccountRevChanged[a]

\* C2: after serialize_delta() and then commit_temp(), the primary store
\* shows for every address what the temp overlay showed when the delta was
\* serialized.
C2_CommitReproducesTempView ==
  snap.kind = "committed" => last.ret /\ PrimaryView = snap.mem

\* C2 witness: the committed delta took balance from an existing account
\* and created a second one.
C2_Witness ==
  /\ snap.kind = "committed"
  /\ Len(m_stateDeltaSerialized) = 2 * EntryLen
  /\ \E i \in {0, 1} :
        /\ m_stateDeltaSerialized[i * EntryLen + 2] % 2 = 1
        /\ snap.mem[m_stateDeltaSerialized[(1 - i) * EntryLen + 1]]
             = {[balance |-> UnZigZag(
                               m_stateDeltaSerialized[(1 - i) * EntryLen + 2]),
                 nonce |-> 0, code |-> 0]}

\* Every byte of the buffer is zero (the empty buffer included).
AllZero(bytes) == bytes = [i \in 1..Len(bytes) |-> 0]

\* C3: get_state_delta_hash() returns the empty digest exactly when every
\* byte of the stored delta is zero, and the digest of the bytes otherwise.
C3_EmptyDigestIffAllZero ==
  last.op = "GetStateDeltaHash" =>
    /\ (last.ret = StateHash) <=> AllZero(m_stateDeltaSerialized)
    /\ ~AllZero(m_stateDeltaSerialized)
         => last.ret = SHA2(m_stateDeltaSerialized)
    /\ last.ret # SHA2([i \in 1..Len(m_stateDeltaSerialized) |-> 0])

\* C3 witness: the hash of a non-empty all-zero delta was asked for.
C3_Witness ==
  /\ last.op = "GetStateDeltaHash"
  /\ Len(m_stateDeltaSerialized) > 1
  /\ AllZero(m_stateDeltaSerialized)

\* C4: move_updates_to_disk() returns success only if no persistence step
\* failed.
C4_SuccessOnlyIfAllPersisted ==
  last.op = "MoveUpdatesToDisk" => (last.ret => last.failed = {})

\* C5: move_updates_to_disk() clears the mapping exactly when it returns
\* success, and then previous_root is the trie's root; on failure the
\* mapping is what it was before the call.
C5_MappingClearedIffSuccess ==
  last.op = "MoveUpdatesToDisk" =>
    IF last.ret
    THEN m_addressToAccount = EmptyMap /\ m_prevRoot = m_state
    ELSE m_addressToAccount = snap.mem

\* C5 witness: a failed move (the trie commit threw) with accounts in the
\* mapping.
C5_Witness ==
  /\ last.op = "MoveUpdatesToDisk"
  /\ ~last.ret
  /\ "trie commit" \in last.failed
  /\ m_addressToAccount # EmptyMap

\* C6: after move_updates_to_disk(), the contract code staged by the call is
\* durably stored if and only if the trie transaction was committed.
C6_CodeStoredIffTrieCommitted ==
  last.op = "MoveUpdatesToDisk" =>
    \A a \in last.code_batch : (a \in diskContractCode) <=> last.committed

\* C7: after discard_unsaved_updates() on an instance that loaded the
\* durable state with retrieve_from_disk() after a restart, the mapping is
\* empty and the trie's root is the root persisted by the last flush.
C7_DiscardRestoresLastFlush ==
  snap.kind = "reloadDiscarded" =>
    m_addressToAccount = EmptyMap /\ diskStateRoot = {m_state}

\* C8: after a successful move_updates_to_disk(), retrieve_from_disk() on a
\* fresh instance returns true and loads the mapping the first instance had
\* in memory before the move.
C8_FreshRetrieveReproducesMapping ==
  snap.kind = "movedRetrieved" =>
    last.ret /\ m_addressToAccount = snap.mem

\* C9: whenever calls are in progress, one of them can take its next step
\* (no state is a deadlock on the four locks).
C9_NoDeadlock ==
  (\E t \in Threads : Running(t))
    => \E t \in Threads : Running(t) /\ ENABLED ThreadStep(t)

\* C10: no reader reads, through the pointer get_account gave it, an
\* account record that move_updates_to_disk() has destroyed.
C10_ReadersSeeLiveAccounts ==
  \A t \in Threads :
     ~(observed[t] = "freed" /\ senderFreedBy[t] = "MoveUpdatesToDisk")

\* C11: when ValidateTxn or update_accounts_temp rejects the transaction,
\* CreateTransaction returns an empty receipt and throws nothing.
C11_RejectedYieldsEmptyReceipt ==
  (last.op = "CreateTransaction" /\ last.rejectedBy # "none")
    => (last.ret = EmptyJson /\ last.thrown = "none")

\* C17: once commit_temp() has completed, by itself or at the end of a
\* CreateTransaction request that ran the transaction, the temp overlay's
\* mapping is empty.
C17_TempDiscardedAfterCommit ==
  (\/ last.op = "CommitTemp"
   \/ (last.op = "CreateTransaction" /\ last.thrown = "none"
                                     /\ last.rejectedBy # "ValidateTxn"))
    => m_accountStoreTemp = EmptyMap

\* The operations that run InitTemp, which clears the stored delta.
TempResets == {"InitTemp", "InitSoft", "Init", "RetrieveFromDisk"}

\* C12 as stated: the stored delta, which get_state_delta_hash() takes the
\* digest of, is the one the latest serialize_delta() stored, whatever the
\* instance's other operations: only serialize_delta() changes it.
C12_DeltaIsLatestSerialized ==
  [][/\ last'.op \notin {"SerializeDelta", "AccountStore"}
          => m_stateDeltaSerialized' = m_stateDeltaSerialized
     /\ last'.op = "GetStateDeltaHash"
          => last'.ret = StateDeltaHash(m_stateDeltaSerialized)]_vars

\* C12 amended: the stored delta, which get_state_delta_hash() takes the
\* digest of, is the one the latest serialize_delta() stored unless a temp
\* reset ran since, which leaves it empty; no other operation changes it.
C12_DeltaIsLatestSerializedOrReset ==
  [][/\ last'.op \notin {"SerializeDelta", "AccountStore"} \cup TempResets
          => m_stateDeltaSerialized' = m_stateDeltaSerialized
     /\ last'.op \in TempResets => m_stateDeltaSerialized' = << >>
     /\ last'.op = "GetStateDeltaHash"
          => last'.ret = StateDeltaHash(m_stateDeltaSerialized)]_vars

\* C12 witness: the digest of a stored delta that is not all zero was asked
\* for after the stores had moved on from what that delta was computed of.
C12_Witness ==
  /\ last.op = "GetStateDeltaHash"
  /\ last.ret = SHA2(m_stateDeltaSerialized)
  /\ m_stateDeltaSerialized
       # SetAccountStoreDelta(m_accountStoreTemp, m_addressToAccount, m_state)

\* C18: after revert_commit_temp() returns, the changed map and the created
\* map are both empty.
C18_RevertClearsChangeSet ==
  last.op = "RevertCommitTemp" =>
    /\ m_addressToAccountRevChanged = EmptyMap
    /\ m_addressToAccountRevCreated = EmptyMap

\* C19: revert_commit_temp() right after the non-revertible commit_temp(),
\* and a commit while no delta is stored, leave the primary store's mapping
\* and trie as they are.
C19_NoMutationOutOfProtocol ==
  [][/\ (last.op = "CommitTemp" /\ last'.op = "RevertCommitTemp")
          => UNCHANGED <<m_addressToAccount, m_state>>
     /\ (/\ last'.op \in {"CommitTemp", "CommitTempRevertible"}
         /\ m_stateDeltaSerialized = << >>)
          => UNCHANGED <<m_addressToAccount, m_state>>]_vars

\* Thread t is inside a call and cannot take its next step: it waits for a
\* mutex.
Blocked(t) == Running(t) /\ ~ENABLED ThreadStep(t)

\* C13: no thread waits for one of the four locks while it holds another
\* one, which it acquired in an earlier step.
C13_NoHoldAndWait ==
  \A t \in Threads : ~(Blocked(t) /\ Held(t) # {})

\* The resource groups the step thread t is at reads or writes.
Touched(t) ==
  IF Running(t) THEN Instr(t).reads \cup Instr(t).writes ELSE {}

\* C14: a thread that reads or writes the stored delta bytes or the temp
\* overlay holds the Delta lock.
C14_DeltaLockGuardsDelta ==
  \A t \in Threads :
     Touched(t) \cap {"delta", "temp"} # {} => "delta" \in Held(t)

\* C15: a thread that reads or writes the changed and created maps holds
\* the Revertible-set lock.
C15_RevertiblesLockGuardsMaps ==
  \A t \in Threads :
     "revertibles" \in Touched(t) => "revertibles" \in Held(t)

\* C16: a thread that is in no call holds none of the four locks, and when
\* no thread is in a call every lock can be acquired.
C16_LocksReleasedOnExit ==
  /\ \A t \in Threads : ~Running(t) => Held(t) = {}
  /\ (\A t \in Threads : ~Running(t))
       => \A l \in {"primary", "delta", "revertibles", "db"} : Free(l)

\* C20: the Primary lock is released in the mode it was acquired in: a
\* thread about to release it shared holds it shared, a thread about to
\* release it exclusively holds it exclusively, and the lock is never left
\* unusable.
C20_PrimaryReleasedInAcquiredMode ==
  /\ ~mutex.primary.wedged
  /\ \A t \in Threads :
        /\ At(t, "unlock_shared") => t \in mutex.primary.readers
        /\ (At(t, "unlock") /\ "primary" \in Instr(t).l)
             => t \in mutex.primary.writer

====
